---- MODULE Spec2Model ----
(***************************************************************************)
(* Identity verification and session issuance of the fraud-reporting       *)
(* portal backend (the express server, src/unnamed/part_000).              *)
(*                                                                         *)
(* The users table is the only shared state.  Every `await sql` of a      *)
(* handler is one atomic store operation; the JavaScript between two      *)
(* awaits touches only request-local values, so it is folded into the     *)
(* store operation that precedes it.  A handler with a SELECT followed by *)
(* an UPDATE/INSERT is therefore two steps, and other requests may run    *)
(* between them.                                                          *)
(*                                                                         *)
(* Columns full_name, address and created_at carry no guard of any route  *)
(* and are left out of the row.                                           *)
(***************************************************************************)
EXTENDS Integers, Sequences, FiniteSets, TLC

(* ---------------------------- bounds --------------------------------- *)
NumReqs == 2
MaxOps == 3
MaxTicks == 1
MaxCeremonyOps == 5

(* ------------------------ program constants -------------------------- *)
OtpTtlMs == 10 * 60 * 1000
TickMs == OtpTtlMs

Missing == ""
NULL == "NULL"
NullTime == 0 - 1
NullHash == <<>>

\* values generateOTP may return: six decimal digits, first digit not 0
Codes == {"100000", "999999"}
\* ids uuidv4 hands out, in the order of their use (one per registrant)
AllIds == <<"U1", "U2">>
TableIds == {AllIds[i] : i \in 1..Len(AllIds)}
Passwords == {"pw1", "pw2"}
Reqs == 1..NumReqs

VARIABLES users, req, now, nops, last, issued, okLog

vars == <<users, req, now, nops, last, issued, okLog>>

(* ------------------------- collaborators ----------------------------- *)
\* bcrypt.hash(password, 10): an opaque salted hash of the plaintext
Hash(pw) == <<"bcrypt", pw>>

\* bcrypt.compare(password, hash)
Compare(pw, h) == h = Hash(pw)

\* new Date(Date.now() + 10 * 60 * 1000)
ExpiryFrom(t) == t + OtpTtlMs

\* a token that names no subject
Sign_NoSubject(row) == [userId |-> Missing, role |-> row.role]

\* jwt.sign({ userId, role }, key, { expiresIn: '24h' })
Sign(row) == [userId |-> row.id, role |-> row.role]

(* --------------------------- store queries --------------------------- *)
\* the result of a SELECT: the rows with these ids (id is the primary key and
\* every query names one id, so at most one row)
Rows(ids) == IF ids = {} THEN <<>> ELSE <<users[CHOOSE i \in ids : TRUE]>>

\* WHERE aadhaar_number = $1 OR email = $2 OR phone_number = $3
ExistingUser(a, e, p) ==
  {i \in DOMAIN users :
     users[i].aadhaar_number = a \/ users[i].email = e \/ users[i].phone_number = p}

\* the expiry compared with >= : a code still passes at its expiry instant
OtpMatches_AtExpiry(row, uid, otp, t) ==
  /\ row.id = uid
  /\ row.otp # NULL
  /\ row.otp = otp
  /\ row.otp_expires_at # NullTime
  /\ row.otp_expires_at >= t

\* WHERE id = $1 AND otp = $2 AND otp_expires_at > NOW()
OtpMatches(row, uid, otp, t) ==
  /\ row.id = uid
  /\ row.otp # NULL
  /\ row.otp = otp
  /\ row.otp_expires_at # NullTime
  /\ row.otp_expires_at > t

\* the verify-otp lookup by id alone
VerifyOtpSelect_AnyCode(uid, otp, t) ==
  Rows({i \in DOMAIN users : users[i].id = uid})

\* SELECT * FROM users WHERE id = .. AND otp = .. AND otp_expires_at > NOW()
\* (verify-otp)
VerifyOtpSelect(uid, otp, t) ==
  Rows({i \in DOMAIN users : OtpMatches(users[i], uid, otp, t)})

\* the lookup without the otp predicate
LoginVerifySelect_AnyCode(uid, otp, t) ==
  Rows({i \in DOMAIN users : users[i].id = uid})

\* the same query as issued by login-verify
LoginVerifySelect(uid, otp, t) ==
  Rows({i \in DOMAIN users : OtpMatches(users[i], uid, otp, t)})

\* the lookup without the is_verified predicate
LoginSelect_AnyUser(uid) ==
  Rows({i \in DOMAIN users : users[i].id = uid})

\* SELECT * FROM users WHERE id = .. AND is_verified = TRUE
LoginSelect(uid) ==
  Rows({i \in DOMAIN users : users[i].id = uid /\ users[i].is_verified})

\* SELECT * FROM users WHERE id = .. AND role = 'OFFICER' AND is_verified = TRUE
OfficerSelect(uid) ==
  Rows({i \in DOMAIN users :
          users[i].id = uid /\ users[i].role = "OFFICER" /\ users[i].is_verified})

(* --------------------------- store writes ---------------------------- *)
\* INSERT INTO users (...) VALUES (...): defaults of the table definition
\* (updated_at DEFAULT CURRENT_TIMESTAMP: the time t of the INSERT)
NewRow(uid, a, p, e, role, otp, exp, t) ==
  [id |-> uid, aadhaar_number |-> a, phone_number |-> p, email |-> e,
   role |-> role, password_hash |-> NullHash, is_verified |-> FALSE,
   otp |-> otp, otp_expires_at |-> exp, updated_at |-> t]

\* PRIMARY KEY (id), UNIQUE (aadhaar_number), UNIQUE (email)
InsertViolates(uid, a, e) ==
  \/ uid \in DOMAIN users
  \/ \E i \in DOMAIN users : users[i].aadhaar_number = a \/ users[i].email = e

\* the update that sets the flag and leaves the secret hash as it was
SetSecretAndVerify_FlagOnly(row, h) ==
  [row EXCEPT !.is_verified = TRUE, !.otp = NULL, !.otp_expires_at = NullTime]

\* the update without the clearing of the code
SetSecretAndVerify_KeepCode(row, h) ==
  [row EXCEPT !.password_hash = h, !.is_verified = TRUE]

\* SET password_hash = .., is_verified = TRUE, otp = NULL, otp_expires_at = NULL
SetSecretAndVerify(row, h) ==
  [row EXCEPT !.password_hash = h, !.is_verified = TRUE,
              !.otp = NULL, !.otp_expires_at = NullTime]

\* a code is stored only when none is stored
SetCode_KeepOld(row, otp, exp) ==
  IF row.otp # NULL THEN row ELSE [row EXCEPT !.otp = otp, !.otp_expires_at = exp]

\* SET otp = .., otp_expires_at = ..
SetCode(row, otp, exp) ==
  [row EXCEPT !.otp = otp, !.otp_expires_at = exp]

\* the clearing of the code alone
ClearCode_KeepExpiry(row) == [row EXCEPT !.otp = NULL]

\* SET otp = NULL, otp_expires_at = NULL
ClearCode(row) ==
  [row EXCEPT !.otp = NULL, !.otp_expires_at = NullTime]

\* a profile update that also drops the stored code
UpdateProfile_DropsCode(row, e, p, t) ==
  [row EXCEPT !.email = e, !.phone_number = p, !.updated_at = t,
              !.otp = NULL, !.otp_expires_at = NullTime]

\* SET email = .., phone_number = .., updated_at = CURRENT_TIMESTAMP
\* (full_name and address are not modelled)
UpdateProfile(row, e, p, t) ==
  [row EXCEPT !.email = e, !.phone_number = p, !.updated_at = t]

\* UPDATE users SET ... WHERE id = uid : the row becomes `row`; no row, no change
UpdateWhereId(uid, row) ==
  IF uid \in DOMAIN users THEN [users EXCEPT ![uid] = row] ELSE users

(* ------------------------------ responses ---------------------------- *)
Idle ==
  [pc |-> "idle", uid |-> Missing, otp |-> Missing, password |-> Missing,
   aadhaar |-> Missing, email |-> Missing, phone |-> Missing, role |-> Missing,
   row |-> <<>>, at |-> 0, issue |-> 0]

\* the step just taken: the route, the request's inputs and its response
\* (status 0: the handler has not responded yet)
Event(op, in, status, error) ==
  [op |-> op, uid |-> in.uid, otp |-> in.otp, password |-> in.password,
   status |-> status, error |-> error]

In(uid, otp, pw) == [uid |-> uid, otp |-> otp, password |-> pw]

NoIn == In(Missing, Missing, Missing)

\* res.status(401).json({ error: 'Invalid credentials' }) -- no row found
LoginNotFound == [status |-> 401, error |-> "Invalid credentials"]

\* res.status(401).json({ error: 'Invalid credentials' }) -- bcrypt mismatch
LoginWrongSecret == [status |-> 401, error |-> "Invalid credentials"]

\* res.status(409).json({ error: 'User already exists with ...' })
Conflict ==
  [status |-> 409,
   error |-> "User already exists with this Aadhaar, email, or phone number"]

\* res.status(401).json({ error: 'Invalid officer credentials' }) -- no row
OfficerNotFound == [status |-> 401, error |-> "Invalid officer credentials"]

\* res.status(401).json({ error: 'Invalid credentials' }) -- bcrypt mismatch
OfficerWrongSecret == [status |-> 401, error |-> "Invalid credentials"]

\* res.status(400).json({ error: 'Invalid or expired OTP' })
InvalidOrExpiredCode == [status |-> 400, error |-> "Invalid or expired OTP"]

\* what a successful verification or token issue did: the request's inputs,
\* the code issue it validated (0: none), the row it read and the flag of the
\* row it wrote
Success(route, q, snap, cur) ==
  [route |-> route, uid |-> q.uid, otp |-> q.otp, issue |-> q.issue,
   checked |-> q.at, verified |-> cur.is_verified, token |-> Sign(snap)]

\* const otp = generateOTP(); stored together with its expiry
Issue(otp, at, kind) == [code |-> otp, at |-> at, kind |-> kind]

\* sendOTP(phoneNumber, otp) stands for the SMS collaborator ("replace with
\* actual SMS service"): whether a delivery throws is the collaborator's choice
Deliveries == {"sent", "failed"}

\* a catch block that undoes the handler's write
CatchDelivery_Rollback(stored, before) == before

\* the catch block of a handler whose delivery threw: it logs and answers 500;
\* the store keeps what the handler wrote (`stored`), not what was there `before`
CatchDelivery(stored, before) == stored

\* uuidv4(): an id no row and no request in flight holds
FreshIds ==
  {i \in TableIds :
     /\ i \notin DOMAIN users
     /\ \A q \in Reqs : ~(req[q].pc = "register_insert" /\ req[q].uid = i)}

FreshId ==
  AllIds[CHOOSE k \in 1..Len(AllIds) :
           AllIds[k] \in FreshIds /\ \A j \in 1..(k - 1) : AllIds[j] \notin FreshIds]

Init ==
  /\ users = [i \in {} |-> Idle]
  /\ req = [r \in Reqs |-> Idle]
  /\ now = 0
  /\ nops = 0
  /\ last = Event("init", NoIn, 0, "")
  /\ issued = [u \in TableIds |-> <<>>]
  /\ okLog = <<>>

\* time passes between any two store operations
Tick ==
  /\ now + TickMs <= MaxTicks * TickMs
  /\ now' = now + TickMs
  /\ last' = Event("tick", NoIn, 0, "")
  /\ UNCHANGED <<users, req, nops, issued, okLog>>

Respond(r, op, status, error) ==
  /\ req' = [req EXCEPT ![r] = Idle]
  /\ last' = Event(op, req[r], status, error)

Reject(op, in, status, error) ==
  /\ last' = Event(op, in, status, error)
  /\ UNCHANGED <<users, req, issued, okLog>>

\* a request arrives and takes the first free handler slot
Arrive(r) ==
  /\ req[r].pc = "idle"
  /\ \A q \in Reqs : q < r => req[q].pc # "idle"
  /\ nops' = nops + 1
  /\ UNCHANGED now

(* ------------------------ POST /api/auth/register -------------------- *)
\* validation, the existing-user SELECT, and the generation of id and code
Register(r, a, p, e, role, otp) ==
  /\ Arrive(r)
  /\ IF a = Missing \/ p = Missing \/ e = Missing
     THEN Reject("register", NoIn, 400, "All fields are required")
     ELSE IF ExistingUser(a, e, p) # {}
     THEN Reject("register", NoIn, Conflict.status, Conflict.error)
     ELSE /\ FreshIds # {}
          /\ req' = [req EXCEPT ![r] =
                       [Idle EXCEPT !.pc = "register_insert", !.uid = FreshId,
                                    !.otp = otp, !.at = now,
                                    !.aadhaar = a, !.phone = p, !.email = e,
                                    !.role = IF role = Missing THEN "USER" ELSE role]]
          /\ last' = Event("register", NoIn, 0, "")
          /\ UNCHANGED <<users, issued, okLog>>

\* the INSERT, then sendOTP and the 201 response (500 from the catch block
\* when the INSERT or the delivery throws)
RegisterInsert(r, sms) ==
  /\ req[r].pc = "register_insert"
  /\ LET q == req[r]
         stored == (q.uid :> NewRow(q.uid, q.aadhaar, q.phone, q.email, q.role,
                                    q.otp, ExpiryFrom(q.at), now)) @@ users
     IN
     IF InsertViolates(q.uid, q.aadhaar, q.email)
     THEN /\ Respond(r, "register", 500, "Registration failed")
          /\ UNCHANGED <<users, issued>>
     ELSE /\ issued' = [issued EXCEPT ![q.uid] = Append(@, Issue(q.otp, q.at, "register"))]
          /\ IF sms = "sent"
             THEN /\ users' = stored
                  /\ Respond(r, "register", 201, "")
             ELSE /\ users' = CatchDelivery(stored, users)
                  /\ Respond(r, "register", 500, "Registration failed")
  /\ UNCHANGED <<now, nops, okLog>>

(* ----------------------- POST /api/auth/verify-otp ------------------- *)
VerifyOtp(r, uid, otp, pw) ==
  /\ Arrive(r)
  /\ IF uid = Missing \/ otp = Missing \/ pw = Missing
     THEN Reject("verify-otp", In(uid, otp, pw), 400, "User ID, OTP, and password are required")
     ELSE LET user == VerifyOtpSelect(uid, otp, now) IN
          IF Len(user) = 0
          THEN Reject("verify-otp", In(uid, otp, pw),
                      InvalidOrExpiredCode.status, InvalidOrExpiredCode.error)
          ELSE /\ req' = [req EXCEPT ![r] =
                            [Idle EXCEPT !.pc = "verify_update", !.uid = uid, !.otp = otp,
                                         !.password = pw, !.row = user, !.at = now,
                                         !.issue = Len(issued[uid])]]
               /\ last' = Event("verify-otp", In(uid, otp, pw), 0, "")
               /\ UNCHANGED <<users, issued, okLog>>

\* bcrypt.hash, the UPDATE and the 200 response
VerifyOtpUpdate(r) ==
  /\ req[r].pc = "verify_update"
  /\ LET q == req[r]
     IN  /\ users' = UpdateWhereId(q.uid,
                        SetSecretAndVerify(users[q.uid], Hash(q.password)))
         /\ okLog' = Append(okLog, Success("verify-otp", q, q.row[1], users[q.uid]))
  /\ Respond(r, "verify-otp", 200, "")
  /\ UNCHANGED <<now, nops, issued>>

(* ------------------------- POST /api/auth/login ---------------------- *)
\* validation, the verified-user SELECT, bcrypt.compare, generation of the code
Login(r, uid, pw, otp) ==
  /\ Arrive(r)
  /\ IF uid = Missing \/ pw = Missing
     THEN Reject("login", In(uid, Missing, pw), 400, "User ID and password are required")
     ELSE LET user == LoginSelect(uid) IN
          IF Len(user) = 0
          THEN Reject("login", In(uid, Missing, pw), LoginNotFound.status, LoginNotFound.error)
          ELSE IF user[1].password_hash = NullHash
          THEN Reject("login", In(uid, Missing, pw), 500, "Login failed")
          ELSE IF ~Compare(pw, user[1].password_hash)
          THEN Reject("login", In(uid, Missing, pw), LoginWrongSecret.status, LoginWrongSecret.error)
          ELSE /\ req' = [req EXCEPT ![r] =
                            [Idle EXCEPT !.pc = "login_update", !.uid = uid,
                                         !.password = pw, !.otp = otp, !.at = now,
                                         !.row = user]]
               /\ last' = Event("login", In(uid, Missing, pw), 0, "")
               /\ UNCHANGED <<users, issued, okLog>>

\* the UPDATE storing the code, then sendOTP and the 200 response (500 from
\* the catch block when the delivery throws)
LoginUpdate(r, sms) ==
  /\ req[r].pc = "login_update"
  /\ LET q == req[r]
         stored == UpdateWhereId(q.uid, SetCode(users[q.uid], q.otp, ExpiryFrom(q.at)))
     IN  /\ issued' = [issued EXCEPT ![q.uid] = Append(@, Issue(q.otp, q.at, "login"))]
         /\ IF sms = "sent"
            THEN /\ users' = stored
                 /\ Respond(r, "login", 200, "OTP sent for login verification")
            ELSE /\ users' = CatchDelivery(stored, users)
                 /\ Respond(r, "login", 500, "Login failed")
  /\ UNCHANGED <<now, nops, okLog>>

(* ---------------------- POST /api/auth/login-verify ------------------ *)
LoginVerify(r, uid, otp) ==
  /\ Arrive(r)
  /\ IF uid = Missing \/ otp = Missing
     THEN Reject("login-verify", In(uid, otp, Missing), 400, "User ID and OTP are required")
     ELSE LET user == LoginVerifySelect(uid, otp, now) IN
          IF Len(user) = 0
          THEN Reject("login-verify", In(uid, otp, Missing),
                      InvalidOrExpiredCode.status, InvalidOrExpiredCode.error)
          ELSE /\ req' = [req EXCEPT ![r] =
                            [Idle EXCEPT !.pc = "loginverify_update", !.uid = uid,
                                         !.otp = otp, !.row = user, !.at = now,
                                         !.issue = Len(issued[uid])]]
               /\ last' = Event("login-verify", In(uid, otp, Missing), 0, "")
               /\ UNCHANGED <<users, issued, okLog>>

\* the UPDATE clearing the code, jwt.sign over the row read, the 200 response
LoginVerifyUpdate(r) ==
  /\ req[r].pc = "loginverify_update"
  /\ LET q == req[r]
     IN  /\ users' = UpdateWhereId(q.uid, ClearCode(users[q.uid]))
         /\ okLog' = Append(okLog, Success("login-verify", q, q.row[1], users[q.uid]))
  /\ Respond(r, "login-verify", 200, "Login successful")
  /\ UNCHANGED <<now, nops, issued>>

(* ----------------------- POST /api/officer/login --------------------- *)
\* one SELECT and no write: the whole handler is one step.  An absent
\* password reaches bcrypt.compare, which throws (500).
OfficerLogin(r, uid, pw) ==
  /\ Arrive(r)
  /\ LET user == OfficerSelect(uid) IN
     IF Len(user) = 0
     THEN Reject("officer-login", In(uid, Missing, pw),
                 OfficerNotFound.status, OfficerNotFound.error)
     ELSE IF pw = Missing \/ user[1].password_hash = NullHash
     THEN Reject("officer-login", In(uid, Missing, pw), 500, "Officer login failed")
     ELSE IF ~Compare(pw, user[1].password_hash)
     THEN Reject("officer-login", In(uid, Missing, pw),
                 OfficerWrongSecret.status, OfficerWrongSecret.error)
     ELSE /\ okLog' = Append(okLog, Success("officer-login",
                                            [Idle EXCEPT !.uid = uid, !.at = now],
                                            user[1], user[1]))
          /\ last' = Event("officer-login", In(uid, Missing, pw), 200, "Officer login successful")
          /\ UNCHANGED <<users, req, issued>>

(* -------------------- PATCH /api/user/:userID/profile ---------------- *)
\* UNIQUE (email) and the NOT NULL columns are enforced by the store
ProfileViolates(uid, e, p) ==
  /\ uid \in DOMAIN users
  /\ \/ e = Missing
     \/ p = Missing
     \/ \E i \in DOMAIN users : i # uid /\ users[i].email = e

\* a single UPDATE, no SELECT before it
Profile(r, uid, e, p) ==
  /\ Arrive(r)
  /\ IF ProfileViolates(uid, e, p)
     THEN Reject("profile", In(uid, Missing, Missing), 500, "Failed to update profile")
     ELSE /\ users' = UpdateWhereId(uid, UpdateProfile(users[uid], e, p, now))
          /\ last' = Event("profile", In(uid, Missing, Missing), 200, "Profile updated successfully")
          /\ UNCHANGED <<req, issued, okLog>>

(* ------------------------------ requests ----------------------------- *)
\* registration forms <<aadhaar, phone, email, role>>: a citizen (role left
\* to its default), the same citizen naming a role of their own, an officer,
\* and a form with a required field left out
Forms ==
  {<<"A1", "P1", "E1", Missing>>, <<"A1", "P1", "E1", "ADMIN">>,
   <<"A2", "P2", "E2", "OFFICER">>, <<Missing, "P1", "E1", Missing>>}

RegisterAny ==
  /\ nops < MaxOps
  /\ \E r \in Reqs, f \in Forms, otp \in Codes :
       Register(r, f[1], f[2], f[3], f[4], otp)

RegisterInsertAny == \E r \in Reqs, sms \in Deliveries : RegisterInsert(r, sms)

VerifyOtpAny ==
  /\ nops < MaxOps
  /\ \E r \in Reqs, uid \in TableIds \cup {Missing}, otp \in Codes,
        pw \in Passwords :
       VerifyOtp(r, uid, otp, pw)

VerifyOtpUpdateAny == \E r \in Reqs : VerifyOtpUpdate(r)

LoginAny ==
  /\ nops < MaxOps
  /\ \E r \in Reqs, uid \in TableIds \cup {Missing}, pw \in Passwords, otp \in Codes :
       Login(r, uid, pw, otp)

LoginUpdateAny == \E r \in Reqs, sms \in Deliveries : LoginUpdate(r, sms)

LoginVerifyAny ==
  /\ nops < MaxOps
  /\ \E r \in Reqs, uid \in TableIds \cup {Missing}, otp \in Codes :
       LoginVerify(r, uid, otp)

LoginVerifyUpdateAny == \E r \in Reqs : LoginVerifyUpdate(r)

OfficerLoginAny ==
  /\ nops < MaxOps
  /\ \E r \in Reqs, uid \in TableIds, pw \in Passwords \cup {Missing} :
       OfficerLogin(r, uid, pw)

\* contact forms <<email, phone>>: a new phone, a new email and phone, and a
\* form with the email left out
Contacts == {<<"E1", "P2">>, <<"E2", "P2">>, <<Missing, "P1">>}

ProfileAny ==
  /\ nops < MaxOps
  /\ \E r \in Reqs, uid \in TableIds, c \in Contacts : Profile(r, uid, c[1], c[2])

Next ==
  \/ Tick
  \/ RegisterAny
  \/ RegisterInsertAny
  \/ VerifyOtpAny
  \/ VerifyOtpUpdateAny
  \/ LoginAny
  \/ LoginUpdateAny
  \/ LoginVerifyAny
  \/ LoginVerifyUpdateAny
  \/ OfficerLoginAny
  \/ ProfileAny

Spec == Init /\ [][Next]_vars

(* ---- the ceremony of one citizen: fewer inputs, one more request ---- *)
Citizen == <<"A1", "P1", "E1", Missing>>

CitizenRegister ==
  /\ nops < MaxCeremonyOps
  /\ \E r \in Reqs, otp \in Codes :
       Register(r, Citizen[1], Citizen[2], Citizen[3], Citizen[4], otp)

CitizenVerifyOtp ==
  /\ nops < MaxCeremonyOps
  /\ \E r \in Reqs, otp \in Codes, pw \in Passwords : VerifyOtp(r, AllIds[1], otp, pw)

CitizenLogin ==
  /\ nops < MaxCeremonyOps
  /\ \E r \in Reqs, pw \in Passwords, otp \in Codes : Login(r, AllIds[1], pw, otp)

CitizenLoginVerify ==
  /\ nops < MaxCeremonyOps
  /\ \E r \in Reqs, otp \in Codes : LoginVerify(r, AllIds[1], otp)

\* in the ceremony every delivery reaches the citizen
CitizenRegisterInsert == \E r \in Reqs : RegisterInsert(r, "sent")

CitizenLoginUpdate == \E r \in Reqs : LoginUpdate(r, "sent")

NextCeremony ==
  \/ Tick
  \/ CitizenRegister
  \/ CitizenRegisterInsert
  \/ CitizenVerifyOtp
  \/ VerifyOtpUpdateAny
  \/ CitizenLogin
  \/ CitizenLoginUpdate
  \/ CitizenLoginVerify
  \/ LoginVerifyUpdateAny

SpecCeremony == Init /\ [][NextCeremony]_vars

(* ============================== claims =============================== *)
Oks(route) == {i \in DOMAIN okLog : okLog[i].route = route}

\* the code issue a successful request validated
IssueOf(e) == issued[e.uid][e.issue]

\* C1: of the verify-otp requests that validate the same registration code of
\* a pending identity, exactly one succeeds (the others get 400)
C1_OneVerifyOtpPerCode ==
  \A i, j \in Oks("verify-otp") :
    (/\ okLog[i].uid = okLog[j].uid
     /\ okLog[i].issue = okLog[j].issue
     /\ IssueOf(okLog[i]).kind = "register") => i = j

\* C2: at most one session token is issued against a code issued by login
C2_OneTokenPerLoginCode ==
  \A i, j \in Oks("login-verify") :
    (/\ okLog[i].uid = okLog[j].uid
     /\ okLog[i].issue = okLog[j].issue
     /\ IssueOf(okLog[i]).kind = "login") => i = j

\* C3: login-verify returns a token only for a Verified identity holding a
\* code issued by login
C3_TokenOnlyForVerified ==
  \A i \in Oks("login-verify") :
    okLog[i].verified /\ IssueOf(okLog[i]).kind = "login"

\* C4 (as claimed): every token, on the citizen and on the officer path, is
\* issued by a request that checked a one-time code
C4_TokenOnlyAfterCode ==
  \A i \in Oks("login-verify") \cup Oks("officer-login") : okLog[i].issue > 0

\* C4 (amended): a login-verify token follows a successful check of a code
\* issued to that identity, presented before its expiry; an officer-login
\* token is issued without a code check, to a Verified identity of role OFFICER
C4_TokenPaths ==
  /\ \A i \in Oks("login-verify") :
       /\ okLog[i].issue \in 1..Len(issued[okLog[i].uid])
       /\ IssueOf(okLog[i]).code = okLog[i].otp
       /\ okLog[i].checked < IssueOf(okLog[i]).at + OtpTtlMs
  /\ \A i \in Oks("officer-login") :
       /\ okLog[i].issue = 0
       /\ okLog[i].verified
       /\ okLog[i].token.role = "OFFICER"

\* login-verify has issued a token for the identity whose code it checked
C4_Witness ==
  \E i \in Oks("login-verify") :
    /\ okLog[i].token.userId = okLog[i].uid
    /\ IssueOf(okLog[i]).code = okLog[i].otp

\* C5: the secret hash of an identity is written at most once, and only by a
\* verify-otp on an Unverified identity against its registration code
C5_SecretWrittenOnce ==
  /\ \A i, j \in Oks("verify-otp") : okLog[i].uid = okLog[j].uid => i = j
  /\ \A i \in Oks("verify-otp") :
       ~okLog[i].verified /\ IssueOf(okLog[i]).kind = "register"

\* C6: aadhaar number, email and phone number are each unique across identities
C6_UniqueAttributes ==
  \A i, j \in DOMAIN users :
    i # j => /\ users[i].aadhaar_number # users[j].aadhaar_number
             /\ users[i].email # users[j].email
             /\ users[i].phone_number # users[j].phone_number

\* a request of this route arrives in the step and runs its first store query
Arrives(route) == nops' = nops + 1 /\ last'.op = route

Answer(e) == [status |-> e.status, error |-> e.error]

\* the code was validated by a completed request of this route and no code
\* has been stored for the identity since
Consumed(route, uid, otp) ==
  \E i \in Oks(route) :
    okLog[i].uid = uid /\ okLog[i].otp = otp /\ okLog[i].issue = Len(issued[uid])

\* C7: a verify request that presents a code already consumed by a completed
\* request of the same route for the same identity gets 400 'Invalid or
\* expired OTP' and writes nothing
C7_NoReuse ==
  [][\A route \in {"verify-otp", "login-verify"} :
       (Arrives(route) /\ Consumed(route, last'.uid, last'.otp))
         => (Answer(last') = InvalidOrExpiredCode /\ users' = users /\ req' = req)]_vars

C7_Witness ==
  /\ last.op \in {"verify-otp", "login-verify"}
  /\ Consumed(last.op, last.uid, last.otp)
  /\ Answer(last) = InvalidOrExpiredCode

\* the codes that would pass the check for the identity at this instant
Active(u) == {c \in Codes : OtpMatches(users[u], u, c, now)}

\* C8: an identity has at most one active code, and it is the code stored
\* last: a code stored before it no longer validates
C8_OnlyLatestCode ==
  \A u \in DOMAIN users :
    /\ Cardinality(Active(u)) <= 1
    /\ \A c \in Active(u) :
         /\ Len(issued[u]) >= 1
         /\ c = issued[u][Len(issued[u])].code
         /\ now < issued[u][Len(issued[u])].at + OtpTtlMs

\* a code was overwritten by a different one before its 10 minutes elapsed
\* and before any request consumed it
C8_Witness ==
  \E u \in DOMAIN users :
    LET n == Len(issued[u]) IN
    /\ n >= 2
    /\ issued[u][n - 1].code # issued[u][n].code
    /\ now < issued[u][n - 1].at + OtpTtlMs
    /\ \A i \in DOMAIN okLog : ~(okLog[i].uid = u /\ okLog[i].issue = n - 1)
    /\ Active(u) = {issued[u][n].code}

\* the check of a verify request passes
Passes(e) == e.status = 0

\* C9: a registration leaves exactly one stored code with expiry = creation
\* time + 10 minutes; a verify request passes iff its candidate equals the
\* stored code and the check is strictly before that expiry, and gets 400
\* otherwise; only a successful verification removes a stored code
C9_ValidatesIffExactAndInTime ==
  [][/\ (last'.op = "register" /\ last'.status = 201) =>
          /\ last'.uid \notin DOMAIN users
          /\ users'[last'.uid].otp = last'.otp
          /\ users'[last'.uid].otp \in Codes
          /\ users'[last'.uid].otp_expires_at = issued'[last'.uid][1].at + OtpTtlMs
          /\ Len(issued'[last'.uid]) = 1
     /\ \A route \in {"verify-otp", "login-verify"} :
          (Arrives(route) /\ Answer(last') # [status |-> 400, error |->
              IF route = "verify-otp" THEN "User ID, OTP, and password are required"
              ELSE "User ID and OTP are required"]) =>
            LET u == last'.uid
                ok == /\ u \in DOMAIN users
                      /\ users[u].otp = last'.otp
                      /\ now < issued[u][Len(issued[u])].at + OtpTtlMs
            IN  /\ ok <=> Passes(last')
                /\ ~ok <=> Answer(last') = InvalidOrExpiredCode
     /\ \A u \in DOMAIN users :
          (users[u].otp # NULL /\ users'[u].otp = NULL) =>
            (last'.status = 200 /\ last'.op \in {"verify-otp", "login-verify"})]_vars

\* the correct, still stored code is refused at the instant of its expiry
C9_Witness ==
  /\ last.op = "verify-otp"
  /\ Answer(last) = InvalidOrExpiredCode
  /\ last.uid \in DOMAIN users
  /\ users[last.uid].otp = last.otp
  /\ ~users[last.uid].is_verified
  /\ now = issued[last.uid][1].at + OtpTtlMs

\* C10: login never stores a code for an Unverified identity; an unknown or
\* Unverified identity and a Verified identity with a wrong secret get the
\* same 401 'Invalid credentials', and neither changes the store
C10_LoginNoEnumeration ==
  [][/\ (Arrives("login") /\ last'.uid # Missing /\ last'.password # Missing) =>
          LET u == last'.uid
              unknown == u \notin DOMAIN users \/ ~users[u].is_verified
              wrong == ~unknown /\ ~Compare(last'.password, users[u].password_hash)
          IN  /\ unknown => (Answer(last') = LoginWrongSecret /\ users' = users)
              /\ wrong => (Answer(last') = LoginNotFound /\ users' = users)
              /\ (unknown \/ wrong) =>
                    (last'.status = 401 /\ last'.error = "Invalid credentials"
                     /\ req' = req /\ issued' = issued)
     /\ (last'.op = "login" /\ last'.status = 200) =>
          (users[last'.uid].is_verified /\ users'[last'.uid].otp \in Codes)]_vars

C10_Witness ==
  /\ last.op = "login"
  /\ last.uid \in DOMAIN users
  /\ ~users[last.uid].is_verified
  /\ Answer(last) = LoginWrongSecret

\* the identity an officer login names exists, is verified and is an officer
IsOfficer(uid) ==
  uid \in DOMAIN users /\ users[uid].is_verified /\ users[uid].role = "OFFICER"

\* C11: an officer login naming an identity that is not found, is not an
\* officer or is not verified gets the very response (status and message) an
\* officer login with a wrong secret gets
C11_OfficerNoEnumeration ==
  [][(Arrives("officer-login") /\ ~IsOfficer(last'.uid))
       => Answer(last') = OfficerWrongSecret]_vars

\* C12: an officer login answers 200 with a token exactly when the identity
\* exists, is verified, is an officer and the secret matches the stored hash;
\* every other officer login answers 401; no officer login changes the store
C12_OfficerTokenOrUnauthorized ==
  [][Arrives("officer-login") =>
       LET ok == /\ IsOfficer(last'.uid)
                 /\ Compare(last'.password, users[last'.uid].password_hash)
       IN  /\ ok <=> (last'.status = 200 /\ Len(okLog') = Len(okLog) + 1)
           /\ ~ok => (last'.status = 401 /\ okLog' = okLog)
           /\ users' = users]_vars

\* C13: a verify-otp request naming an unknown identity, presenting a code
\* other than the stored one, or arriving at or after the stored expiry gets
\* 400 'Invalid or expired OTP' in each of the three cases, and writes nothing
\* (no secret, flag and stored code untouched) then or later
C13_VerifyOtpFailureUniform ==
  [][(Arrives("verify-otp") /\ last'.uid # Missing) =>
       LET u == last'.uid
           unknownId == u \notin DOMAIN users
           wrongCode == u \in DOMAIN users /\ users[u].otp # last'.otp
           expired   == u \in DOMAIN users /\ now >= users[u].otp_expires_at
       IN  (unknownId \/ wrongCode \/ expired) =>
             (Answer(last') = InvalidOrExpiredCode /\ users' = users /\ req' = req)]_vars

\* a wrong code was refused and the identity is still pending with its code
C13_Witness ==
  /\ last.op = "verify-otp"
  /\ Answer(last) = InvalidOrExpiredCode
  /\ last.uid \in DOMAIN users
  /\ users[last.uid].otp \in Codes \ {last.otp}
  /\ now < users[last.uid].otp_expires_at
  /\ ~users[last.uid].is_verified
  /\ users[last.uid].password_hash = NullHash

\* C14: a register request whose aadhaar number, email or phone number
\* belongs to an existing identity when it is answered gets 409 Conflict, and
\* a register request answered with a validation error or a conflict creates
\* no identity and stores no code
C14_RegisterConflict ==
  [][/\ \A r \in Reqs :
          (req[r].pc = "register_insert" /\ req'[r].pc = "idle") =>
            LET q == req[r]
                taken == ExistingUser(q.aadhaar, q.email, q.phone) # {}
            IN  taken => (Answer(last') = Conflict /\ users' = users /\ issued' = issued)
     /\ (Arrives("register") /\ last'.status \in {400, 409}) =>
          (users' = users /\ issued' = issued /\ req' = req)]_vars

\* the identity is registered, not yet verified, and holds an unexpired code
Pending(u) ==
  /\ u \in DOMAIN users
  /\ ~users[u].is_verified
  /\ users[u].otp \in Codes
  /\ now < users[u].otp_expires_at

\* the request in slot r, waiting at pc, completes in this step
Completes(r, pc) == req[r].pc = pc /\ req'[r].pc = "idle"

\* C15: the ceremony of one citizen, step by step: for a pending identity a
\* verify-otp with a wrong code gets 400 'Invalid or expired OTP' and leaves
\* the identity pending, and one with the stored code passes and makes the
\* identity verified under the given password; a login of the verified
\* identity with that password passes and stores a new code with its expiry;
\* a login-verify with the stored, unexpired code passes and returns a token
\* whose subject is the identity and whose role is the stored role, USER
C15_Ceremony ==
  [][/\ (Arrives("verify-otp") /\ Pending(last'.uid)) =>
          IF last'.otp = users[last'.uid].otp
          THEN Passes(last')
          ELSE Answer(last') = InvalidOrExpiredCode /\ users' = users
     /\ (Arrives("login") /\ last'.uid \in DOMAIN users) =>
          ((/\ users[last'.uid].is_verified
            /\ Compare(last'.password, users[last'.uid].password_hash))
             => Passes(last'))
     /\ (Arrives("login-verify") /\ last'.uid \in DOMAIN users) =>
          ((/\ users[last'.uid].otp = last'.otp
            /\ now < users[last'.uid].otp_expires_at)
             => Passes(last'))
     /\ \A r \in Reqs :
          LET q == req[r] IN
          /\ Completes(r, "verify_update") =>
               /\ last'.status = 200
               /\ users'[q.uid].is_verified
               /\ Compare(q.password, users'[q.uid].password_hash)
          /\ Completes(r, "login_update") =>
               /\ last'.status = 200
               /\ users'[q.uid].otp = q.otp
               /\ users'[q.uid].otp_expires_at = q.at + OtpTtlMs
               /\ issued'[q.uid][Len(issued'[q.uid])] = Issue(q.otp, q.at, "login")
          /\ Completes(r, "loginverify_update") =>
               /\ last'.status = 200
               /\ Len(okLog') = Len(okLog) + 1
               /\ okLog'[Len(okLog')].token =
                    [userId |-> q.uid, role |-> users[q.uid].role]
               /\ users[q.uid].role = "USER"]_vars

\* the ceremony has run to its end: the citizen verified with the registration
\* code, logged in, and the token just issued was issued against the code the
\* login stored
C15_Witness ==
  /\ last.op = "login-verify" /\ last.status = 200
  /\ Len(okLog) = 2
  /\ okLog[1].route = "verify-otp" /\ okLog[1].uid = last.uid
  /\ IssueOf(okLog[1]).kind = "register"
  /\ okLog[2].route = "login-verify" /\ okLog[2].uid = last.uid
  /\ okLog[2].verified
  /\ IssueOf(okLog[2]).kind = "login"
  /\ okLog[2].token = [userId |-> last.uid, role |-> "USER"]
  /\ users[last.uid].otp = NULL

\* C16: every stored identity has role USER or OFFICER, and so has every
\* token issued by login-verify or officer login
C16_RoleEnum ==
  /\ \A u \in DOMAIN users : users[u].role \in {"USER", "OFFICER"}
  /\ \A i \in Oks("login-verify") \cup Oks("officer-login") :
       okLog[i].token.role \in {"USER", "OFFICER"}

\* C17: a profile update leaves the named identity's secret hash,
\* verification flag, stored code, code expiry, role and aadhaar number as
\* they were, leaves every other identity as it was, and adds or removes none
C17_ProfileFrame ==
  [][Arrives("profile") =>
       /\ DOMAIN users' = DOMAIN users
       /\ req' = req
       /\ \A i \in DOMAIN users :
            IF i = last'.uid
            THEN /\ users'[i].id = users[i].id
                 /\ users'[i].password_hash = users[i].password_hash
                 /\ users'[i].is_verified = users[i].is_verified
                 /\ users'[i].otp = users[i].otp
                 /\ users'[i].otp_expires_at = users[i].otp_expires_at
                 /\ users'[i].role = users[i].role
                 /\ users'[i].aadhaar_number = users[i].aadhaar_number
            ELSE users'[i] = users[i]]_vars

\* a profile update gave a pending citizen a new phone number and the
\* registration code is still stored
C17_Witness ==
  /\ last.op = "profile" /\ last.status = 200
  /\ last.uid \in DOMAIN users
  /\ users[last.uid].aadhaar_number = "A1"
  /\ users[last.uid].phone_number = "P2"
  /\ users[last.uid].otp \in Codes
  /\ users[last.uid].otp_expires_at # NullTime

\* C18: when the INSERT of a register or the UPDATE of a login has stored a
\* code, the identity holds that code with its expiry whether or not the
\* delivery that follows fails, and the code validates until its expiry
C18_DeliveryFailureKeepsCode ==
  [][\A r \in Reqs :
       LET q == req[r] IN
       (\/ /\ Completes(r, "register_insert")
           /\ ~InsertViolates(q.uid, q.aadhaar, q.email)
        \/ Completes(r, "login_update")) =>
         /\ last'.status \in {200, 201, 500}
         /\ q.uid \in DOMAIN users'
         /\ users'[q.uid].otp = q.otp
         /\ users'[q.uid].otp_expires_at = q.at + OtpTtlMs
         /\ OtpMatches(users'[q.uid], q.uid, q.otp, now) <=> now < q.at + OtpTtlMs]_vars

\* the delivery of a registration code failed: the request was answered 500,
\* and the new identity holds the code, which validates
C18_Witness ==
  /\ last.op = "register" /\ last.status = 500
  /\ last.uid \in DOMAIN users
  /\ users[last.uid].otp = last.otp
  /\ Len(issued[last.uid]) = 1
  /\ VerifyOtpSelect(last.uid, last.otp, now) # <<>>

\* C19 (as claimed): whenever a login succeeds and stores its new code, the
\* identity held no stored code at that moment
C19_LoginOverwritesNothing ==
  [][\A r \in Reqs :
       (Completes(r, "login_update") /\ last'.status = 200)
         => users[req[r].uid].otp = NULL]_vars

\* C19 (amended): whenever a login succeeds it puts its new code and a fresh
\* expiry in place of whatever the identity held, a still-stored code
\* included; from then on no other code validates for the identity, and the
\* rest of the identity and every other identity are as they were
C19_LoginReplacesCode ==
  [][\A r \in Reqs :
       LET q == req[r] IN
       (Completes(r, "login_update") /\ last'.status = 200) =>
         /\ users'[q.uid] = [users[q.uid] EXCEPT !.otp = q.otp,
                                                 !.otp_expires_at = q.at + OtpTtlMs]
         /\ \A c \in Codes \ {q.otp} : ~OtpMatches(users'[q.uid], q.uid, c, now)
         /\ \A i \in DOMAIN users \ {q.uid} : users'[i] = users[i]]_vars

\* a login has just replaced the unexpired code of an earlier login that no
\* request had consumed
C19_Witness ==
  /\ last.op = "login" /\ last.status = 200
  /\ last.uid \in DOMAIN users
  /\ LET u == last.uid
         n == Len(issued[u])
     IN  /\ n >= 3
         /\ issued[u][n - 1].kind = "login"
         /\ issued[u][n].kind = "login"
         /\ now < issued[u][n - 1].at + OtpTtlMs
         /\ \A i \in DOMAIN okLog : ~(okLog[i].uid = u /\ okLog[i].issue = n - 1)
         /\ users[u].otp = issued[u][n].code
         /\ users[u].otp = last.otp

\* C20: every step that changes an identity record (the UPDATE of verify-otp,
\* of login, of login-verify or of a profile update) sets the record's
\* updated_at to the time of the step
C20_MutationsBumpUpdatedAt ==
  [][\A u \in DOMAIN users :
       users'[u] # users[u] => users'[u].updated_at = now]_vars

\* C21: when a login has stored a fresh code for the identity between the
\* validation read of a login-verify and its clearing write, the write leaves
\* the fresh code and its expiry stored, and the fresh code still validates
\* until its expiry
C21_ClearsOnlyValidatedCode ==
  [][\A r \in Reqs :
       LET q == req[r]
           n == Len(issued[q.uid])
       IN  (/\ Completes(r, "loginverify_update")
            /\ n > q.issue
            /\ issued[q.uid][n].kind = "login"
            /\ users[q.uid].otp = issued[q.uid][n].code) =>
             /\ users'[q.uid].otp = users[q.uid].otp
             /\ users'[q.uid].otp_expires_at = users[q.uid].otp_expires_at
             /\ (now < issued[q.uid][n].at + OtpTtlMs =>
                   OtpMatches(users'[q.uid], q.uid, issued[q.uid][n].code, now))]_vars

\* C22: in every state an identity's verification flag is TRUE exactly when
\* its secret hash is non-null, and no step sets the flag of a verified
\* identity back to FALSE or nulls its secret hash
C22_VerifiedIffSecret ==
  /\ [](\A u \in DOMAIN users :
          users[u].is_verified <=> users[u].password_hash # NullHash)
  /\ [][\A u \in DOMAIN users :
          users[u].is_verified =>
            /\ u \in DOMAIN users'
            /\ users'[u].is_verified
            /\ users'[u].password_hash # NullHash]_vars

\* a verified identity has been through a later write (a login stored a code
\* for it) and still holds flag and secret
C22_Witness ==
  /\ last.op = "login" /\ last.status = 200
  /\ last.uid \in DOMAIN users
  /\ users[last.uid].is_verified
  /\ users[last.uid].password_hash = Hash(last.password)
  /\ users[last.uid].otp = last.otp

\* the identity is unverified and its registration code has expired unused
Stranded(u) ==
  /\ u \in DOMAIN users
  /\ ~users[u].is_verified
  /\ users[u].otp # NULL
  /\ now >= users[u].otp_expires_at

\* C23: no login stores a code for an unverified identity, and a register
\* naming the attributes of an existing identity is not accepted; so once the
\* registration code of an unverified identity has expired, every later step
\* leaves the identity unverified with the same expired code, answers its
\* logins 401, and issues it no token
C23_ExpiredStaysUnverified ==
  [][/\ \A r \in Reqs :
          /\ Completes(r, "login_update") => users[req[r].uid].is_verified
          /\ (req[r].pc = "idle" /\ req'[r].pc = "register_insert") =>
               ExistingUser(req'[r].aadhaar, req'[r].email, req'[r].phone) = {}
     /\ \A u \in DOMAIN users :
          Stranded(u) =>
            /\ ~users'[u].is_verified
            /\ users'[u].otp = users[u].otp
            /\ users'[u].otp_expires_at = users[u].otp_expires_at
            /\ (Arrives("login") /\ last'.uid = u) => Answer(last') = LoginNotFound
            /\ \A i \in DOMAIN okLog' \ DOMAIN okLog : okLog'[i].uid # u]_vars

\* C24: in every state the stored code and its expiry of an identity are both
\* null or both non-null, and a step stores or clears the one exactly when it
\* stores or clears the other
C24_CodeAndExpiryTogether ==
  /\ [](\A u \in DOMAIN users :
          users[u].otp = NULL <=> users[u].otp_expires_at = NullTime)
  /\ [][\A u \in DOMAIN users :
          ((users'[u].otp = NULL) # (users[u].otp = NULL))
            <=> ((users'[u].otp_expires_at = NullTime) # (users[u].otp_expires_at = NullTime))]_vars

\* a token was just issued to one identity, whose code and expiry are cleared,
\* while another identity holds a code with its expiry
C24_Witness ==
  /\ last.op = "login-verify" /\ last.status = 200
  /\ last.uid \in DOMAIN users
  /\ users[last.uid].otp = NULL
  /\ users[last.uid].otp_expires_at = NullTime
  /\ \E v \in DOMAIN users \ {last.uid} :
       users[v].otp \in Codes /\ users[v].otp_expires_at = issued[v][1].at + OtpTtlMs

====
